---------------------------- MODULE Spec2Model ----------------------------
(***************************************************************************)
(* Semantic analyzer of dogconf (package dogconf): Analyze, the attribute  *)
(* change builder initAttrChange and the endpoint address resolver         *)
(* hostPortToAddr; and the RoutingTable of the toy proxy (tools/toydog.go) *)
(* with the goroutines that set and look up routes (RtSpec).               *)
(*                                                                         *)
(* Strings are sequences of one-character strings, indexed from 0 as in Go *)
(* (s[i] of the code is s[i+1] here).  Two revisions of sem.go are in the  *)
(* repository: src/dogconf/sem.go ("sem.go") and src/unnamed/part_000      *)
(* ("part_000"); the variable rev says which one is running.               *)
(***************************************************************************)
EXTENDS Integers, Sequences, FiniteSets, TLC

VARIABLES rev, cgo, request, outs

\* tools/toydog.go, the toy proxy: the table map of the RoutingTable, the
\* holder of its mutex l, and for each goroutine where it is (pc), the
\* dbname and addr it calls with (routeAddr), what Route returned to it (ret) and
\* whether its map read raced with a write (raced); crashed when a racing
\* map access took the process down
VARIABLES table, l, pc, dbname, routeAddr, ret, raced, crashed

semVars == <<rev, cgo, request, outs>>
rtVars == <<table, l, pc, dbname, routeAddr, ret, raced, crashed>>
vars == <<rev, cgo, request, outs, table, l, pc, dbname, routeAddr, ret, raced, crashed>>

(***************************************************************************)
(* Every string of the program is a sequence of strings whose              *)
(* concatenation is its text: a lexeme is spelt character by character, a  *)
(* fixed text of the code is one element.  A nil slice is the empty        *)
(* sequence.                                                               *)
(***************************************************************************)
NilIP == <<>>

(***************************************************************************)
(* Bounds of the model.                                                    *)
(***************************************************************************)
MaxProps == 2
MaxPortLen == 2

(***************************************************************************)
(* Characters.                                                             *)
(***************************************************************************)
DigitChars == <<"0", "1", "2", "3", "4", "5", "6", "7", "8", "9">>
HexChars == <<"a", "b", "c", "d", "e", "f">>
UpperHexChars == <<"A", "B", "C", "D", "E", "F">>

IsDigit(c) == \E k \in 1..10 : DigitChars[k] = c
DigitVal(c) == (CHOOSE k \in 1..10 : DigitChars[k] = c) - 1
IsLowerHex(c) == \E k \in 1..6 : HexChars[k] = c
IsUpperHex(c) == \E k \in 1..6 : UpperHexChars[k] = c
LowerHexVal(c) == (CHOOSE k \in 1..6 : HexChars[k] = c) + 9
UpperHexVal(c) == (CHOOSE k \in 1..6 : UpperHexChars[k] = c) + 9

\* s[i:j] of Go
Slice(s, i, j) == SubSeq(s, i + 1, j)

\* index of the last / first c in s, -1 when there is none
LastIndex(s, c) ==
    IF \E k \in 1..Len(s) : s[k] = c
    THEN (CHOOSE k \in 1..Len(s) : s[k] = c /\ \A m \in (k+1)..Len(s) : s[m] # c) - 1
    ELSE -1
ByteIndex(s, c) ==
    IF \E k \in 1..Len(s) : s[k] = c
    THEN (CHOOSE k \in 1..Len(s) : s[k] = c /\ \A m \in 1..(k-1) : s[m] # c) - 1
    ELSE -1

(***************************************************************************)
(* net_help.go: dtoi.                                                      *)
(***************************************************************************)
big == 16777215      \* 0xFFFFFF

RECURSIVE dtoiLoop(_, _, _, _)
dtoiLoop(s, i0, i, n) ==
    IF i < Len(s) /\ IsDigit(s[i + 1])
    THEN LET n1 == n * 10 + DigitVal(s[i + 1])
         IN  IF n1 >= big
             THEN [n |-> 0, i |-> i, ok |-> FALSE]
             ELSE dtoiLoop(s, i0, i + 1, n1)
    ELSE IF i = i0
         THEN [n |-> 0, i |-> i, ok |-> FALSE]
         ELSE [n |-> n, i |-> i, ok |-> TRUE]

dtoi(s, i0) == dtoiLoop(s, i0, i0, 0)


(***************************************************************************)
(* Errors.  An error is a record of its class, the source position its     *)
(* text starts with (NoPos when the text carries none) and the message     *)
(* that follows.  NoErr is the nil error.                                  *)
(***************************************************************************)
NoPos == 0

NoErr == [class |-> "nil", Pos |-> NoPos, msg |-> <<>>]

\* net.AddrError{Err, Addr}.Error() is Err + " " + Addr
AddrError(what, addr) ==
    [class |-> "AddrError", Pos |-> NoPos, msg |-> <<what, " ">> \o addr]
errorsNew(text) == [class |-> "errorString", Pos |-> NoPos, msg |-> <<text>>]

(***************************************************************************)
(* Library routines hostPortToAddr calls (package net of the Go 1.0        *)
(* toolchain, the one the unkeyed net.TCPAddr{addr, p} literal compiles    *)
(* with): SplitHostPort, ParseIP and LookupPort.                           *)
(***************************************************************************)
SplitHostPort(hostport) ==
    LET i == LastIndex(hostport, ":")
    IN  IF i < 0
        THEN [host |-> <<>>, port |-> <<>>,
              err |-> AddrError("missing port in address", hostport)]
        ELSE LET host == Slice(hostport, 0, i)
                 port == Slice(hostport, i + 1, Len(hostport))
             IN  IF Len(host) > 0 /\ host[1] = "[" /\ host[Len(host)] = "]"
                 THEN [host |-> Slice(host, 1, Len(host) - 1), port |-> port, err |-> NoErr]
                 ELSE IF ByteIndex(host, ":") >= 0
                      THEN [host |-> host, port |-> port,
                            err |-> AddrError("too many colons in address", hostport)]
                      ELSE [host |-> host, port |-> port, err |-> NoErr]

\* net.IPv4(a, b, c, d): the 16-byte form of an IPv4 address
IPv4(a, b, c, d) == <<0, 0, 0, 0, 0, 0, 0, 0, 0, 0, 255, 255, a, b, c, d>>

RECURSIVE parseIPv4Loop(_, _, _, _)
\* one octet of parseIPv4: r is what dtoi made of it
parseIPv4Octet(s, j, p, r) ==
    IF ~r.ok \/ r.n > 255
    THEN NilIP
    ELSE parseIPv4Loop(s, r.i, j + 1, Append(p, r.n))

parseIPv4Loop(s, i, j, p) ==
    IF j >= 4
    THEN IF i # Len(s) THEN NilIP ELSE IPv4(p[1], p[2], p[3], p[4])
    ELSE IF i >= Len(s)
         THEN NilIP
         ELSE IF j > 0 /\ s[i + 1] # "."
              THEN NilIP
              ELSE parseIPv4Octet(s, j, p, dtoi(s, IF j > 0 THEN i + 1 ELSE i))

parseIPv4(s) == parseIPv4Loop(s, 0, 0, <<>>)

RECURSIVE xtoiLoop(_, _, _, _)
xtoiLoop(s, i0, i, n) ==
    IF i < Len(s) /\ (IsDigit(s[i + 1]) \/ IsLowerHex(s[i + 1]) \/ IsUpperHex(s[i + 1]))
    THEN LET c == s[i + 1]
             v == IF IsDigit(c) THEN DigitVal(c)
                  ELSE IF IsLowerHex(c) THEN LowerHexVal(c) ELSE UpperHexVal(c)
             n1 == n * 16 + v
         IN  IF n1 >= big
             THEN [n |-> 0, i |-> i, ok |-> FALSE]
             ELSE xtoiLoop(s, i0, i + 1, n1)
    ELSE IF i = i0
         THEN [n |-> 0, i |-> i, ok |-> FALSE]
         ELSE [n |-> n, i |-> i, ok |-> TRUE]

xtoi(s, i0) == xtoiLoop(s, i0, i0, 0)

ZeroIP == [k \in 1..16 |-> 0]

\* the tail of parseIPv6: the whole string was used, the ellipsis is expanded
parseIPv6End(s, i, j, ellipsis, p) ==
    IF i # Len(s)
    THEN NilIP
    ELSE IF j < 16
         THEN IF ellipsis < 0
              THEN NilIP
              ELSE [k \in 1..16 |->
                       IF k - 1 < ellipsis THEN p[k]
                       ELSE IF k - 1 < ellipsis + (16 - j) THEN 0 ELSE p[k - (16 - j)]]
         ELSE p

\* a trailing IPv4 address inside an IPv6 one: p4 is what parseIPv4 made of it
parseIPv6Tail(s, j, ellipsis, p, p4) ==
    IF p4 = NilIP
    THEN NilIP
    ELSE parseIPv6End(s, Len(s), j + 4, ellipsis,
             [k \in 1..16 |-> IF k > j /\ k <= j + 4 THEN p4[12 + k - j] ELSE p[k]])

RECURSIVE parseIPv6Loop(_, _, _, _, _)
\* one 16-bit chunk of parseIPv6: x is what xtoi made of it
parseIPv6Chunk(s, i, j, ellipsis, p, x) ==
    IF ~x.ok \/ x.n > 65535
    THEN NilIP
    ELSE IF x.i < Len(s) /\ s[x.i + 1] = "."
         THEN IF ellipsis < 0 /\ j # 16 - 4
              THEN NilIP
              ELSE IF j + 4 > 16
                   THEN NilIP
                   ELSE parseIPv6Tail(s, j, ellipsis, p, parseIPv4(Slice(s, i, Len(s))))
         ELSE LET p1 == [p EXCEPT ![j + 1] = x.n \div 256, ![j + 2] = x.n % 256]
              IN  IF x.i = Len(s)
                  THEN parseIPv6End(s, x.i, j + 2, ellipsis, p1)
                  ELSE IF s[x.i + 1] # ":" \/ x.i + 1 = Len(s)
                       THEN NilIP
                       ELSE IF s[x.i + 2] = ":"
                            THEN IF ellipsis >= 0
                                 THEN NilIP
                                 ELSE IF x.i + 2 = Len(s)
                                      THEN parseIPv6End(s, x.i + 2, j + 2, j + 2, p1)
                                      ELSE parseIPv6Loop(s, x.i + 2, j + 2, j + 2, p1)
                            ELSE parseIPv6Loop(s, x.i + 1, j + 2, ellipsis, p1)

parseIPv6Loop(s, i, j, ellipsis, p) ==
    IF j >= 16
    THEN parseIPv6End(s, i, j, ellipsis, p)
    ELSE parseIPv6Chunk(s, i, j, ellipsis, p, xtoi(s, i))

parseIPv6(s) ==
    IF Len(s) >= 2 /\ s[1] = ":" /\ s[2] = ":"
    THEN IF Len(s) = 2 THEN ZeroIP ELSE parseIPv6Loop(s, 2, 0, 0, ZeroIP)
    ELSE parseIPv6Loop(s, 0, 0, -1, ZeroIP)

\* p is what parseIPv4 made of s
ParseIPOr6(s, p) == IF p # NilIP THEN p ELSE parseIPv6(s)

ParseIP(s) == ParseIPOr6(s, parseIPv4(s))

(***************************************************************************)
(* net.LookupPort.  The services database maps "http" to 80 and "big" to  *)
(* 70000 (readServices range-checks nothing).  Without cgo every other     *)
(* name, a digit string included, is an unknown port; with cgo the lookup  *)
(* is getaddrinfo's, which takes a digit string as a number and hands back *)
(* the 16 bits of a sockaddr port.                                         *)
(***************************************************************************)
svcHttp == <<"h", "t", "t", "p">>
svcBig == <<"b", "i", "g">>

AllDigits(s) == \A k \in 1..Len(s) : IsDigit(s[k])

\* the value of a digit string modulo 2^16
RECURSIVE Mod16(_, _, _)
Mod16(s, i, n) ==
    IF i >= Len(s) THEN n ELSE Mod16(s, i + 1, (n * 10 + DigitVal(s[i + 1])) % 65536)

LookupPort(network, service) ==
    LET known == IF service = svcHttp THEN 80
                 ELSE IF service = svcBig THEN 70000 ELSE -1
    IN  IF cgo
        THEN IF known >= 0
             THEN [port |-> known % 65536, err |-> NoErr]
             ELSE IF AllDigits(service)
                  THEN [port |-> Mod16(service, 0, 0), err |-> NoErr]
                  ELSE [port |-> 0, err |-> AddrError("unknown port", network \o <<"/">> \o service)]
        ELSE IF known >= 0
             THEN [port |-> known, err |-> NoErr]
             ELSE [port |-> 0, err |-> AddrError("unknown port", network \o <<"/">> \o service)]

(***************************************************************************)
(* net_help.go: hostPortToAddr.                                            *)
(***************************************************************************)
TCPAddr(ip, port) == [nil |-> FALSE, IP |-> ip, Port |-> port]

\* the nil net.Addr
NilAddr == [nil |-> TRUE, IP |-> NilIP, Port |-> 0]

\* lines 57-63: the port is what dtoi made of it (r) when that is all of it,
\* and the services lookup's otherwise
portAfterDtoi(network, port, r) ==
    IF ~r.ok \/ r.i # Len(port)
    THEN LookupPort(network, port)
    ELSE [port |-> r.n, err |-> NoErr]

\* lines 48-55: addr is what ParseIP made of a host that is not empty
hostParsed(addr) ==
    IF addr = NilIP
    THEN [addr |-> NilIP, err |-> errorsNew("Invalid IP passed")]
    ELSE [addr |-> addr, err |-> NoErr]

hostOf(host) ==
    IF host # <<>>
    THEN hostParsed(ParseIP(host))
    ELSE [addr |-> NilIP, err |-> NoErr]

\* lines 65-69: the range check and the endpoint
portInRange(p) == ~(p < 0 \/ p > 65535)

withPort(addr, port, p) ==
    IF p.err # NoErr
    THEN [a |-> NilAddr, err |-> p.err]
    ELSE IF ~portInRange(p.port)
         THEN [a |-> NilAddr, err |-> AddrError("invalid port", port)]
         ELSE [a |-> TCPAddr(addr, p.port), err |-> NoErr]

withHost(network, port, h) ==
    IF h.err # NoErr
    THEN [a |-> NilAddr, err |-> h.err]
    ELSE withPort(h.addr, port, portAfterDtoi(network, port, dtoi(port, 0)))

withSplit(network, sp) ==
    IF sp.err # NoErr
    THEN [a |-> NilAddr, err |-> sp.err]
    ELSE withHost(network, sp.port, hostOf(sp.host))

hostPortToAddr(network, hostport) == withSplit(network, SplitHostPort(hostport))

(***************************************************************************)
(* strconv.ParseUint(s, 10, 64).  A uint64 is five digits of base 10000,   *)
(* least significant first (2^64 - 1 is 1844 6744 0737 0955 1615).         *)
(***************************************************************************)
U64Zero == <<0, 0, 0, 0, 0>>
U64Max == <<1615, 955, 737, 6744, 1844>>

RECURSIVE U64Greater(_, _, _)
U64Greater(a, b, k) ==
    IF k = 0 THEN FALSE
    ELSE IF a[k] # b[k] THEN a[k] > b[k] ELSE U64Greater(a, b, k - 1)

\* n * 10 + v: the five digits and what is carried out of them
U64MulAdd(n, v) ==
    LET t1 == n[1] * 10 + v
        t2 == n[2] * 10 + (t1 \div 10000)
        t3 == n[3] * 10 + (t2 \div 10000)
        t4 == n[4] * 10 + (t3 \div 10000)
        t5 == n[5] * 10 + (t4 \div 10000)
    IN  [n |-> <<t1 % 10000, t2 % 10000, t3 % 10000, t4 % 10000, t5 % 10000>>,
         carry |-> t5 \div 10000]

\* strconv.Quote of a string with nothing to escape
Quote(s) == <<"\"">> \o s \o <<"\"">>

NumError(func, num, what) ==
    [class |-> "NumError", Pos |-> NoPos,
     msg |-> <<"strconv.", func, ": parsing ">> \o Quote(num) \o <<": ", what>>]

RECURSIVE ParseUintLoop(_, _, _)
\* one digit of ParseUint: r is n * 10 + the digit
ParseUintDigit(s, i, r) ==
    IF r.carry > 0 \/ U64Greater(r.n, U64Max, 5)
    THEN [n |-> U64Max, err |-> NumError("ParseUint", s, "value out of range")]
    ELSE ParseUintLoop(s, i + 1, r.n)

ParseUintLoop(s, i, n) ==
    IF i >= Len(s)
    THEN [n |-> n, err |-> NoErr]
    ELSE IF ~IsDigit(s[i + 1])
         THEN [n |-> U64Zero, err |-> NumError("ParseUint", s, "invalid syntax")]
         ELSE ParseUintDigit(s, i, U64MulAdd(n, DigitVal(s[i + 1])))

ParseUint(s) ==
    IF Len(s) < 1
    THEN [n |-> U64Zero, err |-> NumError("ParseUint", s, "invalid syntax")]
    ELSE ParseUintLoop(s, 0, U64Zero)

(***************************************************************************)
(* Syntax: tokens, target specifications, actions and requests, as the     *)
(* analyzer reads them.  A Blamer is the node an error is blamed on:       *)
(* Blame().Pos is its Pos.                                                 *)
(***************************************************************************)
Token(lexeme, pos) == [kind |-> "Token", Lexeme |-> lexeme, Pos |-> pos]
NilBlamer == [kind |-> "nil", Lexeme |-> <<>>, Pos |-> NoPos]

\* the node as a Blamer
BlamerOf(node) == [kind |-> node.kind, Lexeme |-> node.Lexeme, Pos |-> node.Pos]

\* %T of a target specification
TypeName(spec) == <<"*dogconf.", spec.kind>>

(***************************************************************************)
(* fmt.Sprintf over the verbs the analyzer uses.  A format is the sequence *)
(* of its pieces, a verb being a piece of its own; an operand is its type  *)
(* (%T) and its text (%v).                                                 *)
(***************************************************************************)
RECURSIVE Sprintf(_, _)
Sprintf(format, args) ==
    IF format = <<>>
    THEN <<>>
    ELSE LET h == Head(format)
         IN  IF h = "%T" \/ h = "%v"
             THEN IF args = <<>>
                  THEN <<"%!", h, "(MISSING)">> \o Sprintf(Tail(format), args)
                  ELSE (IF h = "%T" THEN Head(args).type ELSE Head(args).text)
                           \o Sprintf(Tail(format), Tail(args))
             ELSE <<h>> \o Sprintf(Tail(format), args)

RECURSIVE JoinTexts(_)
JoinTexts(args) ==
    IF args = <<>> THEN <<>>
    ELSE IF Len(args) = 1 THEN args[1].text
         ELSE args[1].text \o <<" ">> \o JoinTexts(Tail(args))

\* the variadic args handed on as one operand, a []interface{}
AsOneOperand(args) ==
    [type |-> <<"[]interface {}">>, text |-> <<"[">> \o JoinTexts(args) \o <<"]">>]

OperandOfSpec(spec) == [type |-> TypeName(spec), text |-> <<"&{...}">>]
OperandOfError(e) == [type |-> <<"*strconv.", e.class>>, text |-> e.msg]

(***************************************************************************)
(* sem.go: semErrf and ErrBadTarget.                                       *)
(***************************************************************************)
semErrf(blam, format, args) ==
    [class |-> "fmtError",
     Pos |-> blam.Pos,
     msg |-> IF rev = "sem.go"
             THEN Sprintf(format, <<AsOneOperand(args)>>)
             ELSE Sprintf(format, args)]

ErrBadTarget(e) == [class |-> "ErrBadTarget", Pos |-> e.Pos, msg |-> e.msg]

(***************************************************************************)
(* sem_types.go: AttrChange, the targets and the directives.               *)
(***************************************************************************)
ZeroAttrChange ==
    [AddrBlame |-> NilBlamer, Addr |-> NilAddr,
     DbnameInBlame |-> NilBlamer, DbnameIn |-> <<>>,
     DbnameRewrittenBlame |-> NilBlamer, DbnameRewritten |-> <<>>,
     LockBlame |-> NilBlamer, Lock |-> FALSE]

\* the nil Target
NilTarget ==
    [kind |-> "nil", Blamer |-> NilBlamer, OneBlamer |-> NilBlamer,
     What |-> <<>>, Ocn |-> U64Zero]

TargetAll(blamer) ==
    [kind |-> "TargetAll", Blamer |-> blamer, OneBlamer |-> NilBlamer,
     What |-> <<>>, Ocn |-> U64Zero]

TargetOne(blamer, what) ==
    [kind |-> "TargetOne", Blamer |-> blamer, OneBlamer |-> NilBlamer,
     What |-> what, Ocn |-> U64Zero]

\* TargetOcn embeds a TargetOne: OneBlamer and What are its fields
TargetOcn(blamer, one, ocn) ==
    [kind |-> "TargetOcn", Blamer |-> blamer, OneBlamer |-> one.Blamer,
     What |-> one.What, Ocn |-> ocn]

\* A Directive as Analyze returns it: the dynamic type of the interface
\* value (dyn, "nil" for the nil interface) and what it points at (nil when
\* the pointer inside is nil).
Directive(dyn, blamer, target, change) ==
    [dyn |-> dyn, nil |-> FALSE, Blamer |-> blamer, Target |-> target, Change |-> change]

NilPointer(dyn) ==
    [dyn |-> dyn, nil |-> TRUE, Blamer |-> NilBlamer, Target |-> NilTarget,
     Change |-> ZeroAttrChange]

NilDirective == NilPointer("nil")

(***************************************************************************)
(* sem.go: initAttrChange.  props is the map as the sequence of its        *)
(* entries in the order range visits them.                                 *)
(***************************************************************************)
fieldAddr == <<"addr">>
fieldDbnameIn == <<"dbnameIn">>
fieldDbnameRewritten == <<"dbnameRewritten">>
fieldLock == <<"lock">>

litTrue == <<"'", "t", "r", "u", "e", "'">>
litFalse == <<"'", "f", "a", "l", "s", "e", "'">>

lockErr(value) ==
    [class |-> "fmtError", Pos |-> NoPos,
     msg |-> Sprintf(<<"Could not recognize lock literal ", "%v",
                       ", choose 'true' or 'false'">>,
                     <<[type |-> <<"string">>, text |-> value.Lexeme]>>)]

\* A case of the switch yields the change, the error returned, and panic
\* when it does not return.  r is what hostPortToAddr made of the literal.
addrResolved(change, value, r) ==
    IF r.err # NoErr
    THEN [change |-> [change EXCEPT !.Addr = r.a], err |-> r.err, panic |-> FALSE]
    ELSE [change |-> [change EXCEPT !.Addr = r.a, !.AddrBlame = BlamerOf(value)],
          err |-> NoErr, panic |-> FALSE]

caseAddr(change, value) ==
    IF Len(value.Lexeme) < 2
    THEN [change |-> change, err |-> NoErr, panic |-> TRUE]
    ELSE addrResolved(change, value,
             hostPortToAddr(<<"tcp">>, Slice(value.Lexeme, 1, Len(value.Lexeme) - 1)))

caseLockLenient(change, value) ==
    [change |-> [change EXCEPT !.Lock = (value.Lexeme = litTrue),
                               !.LockBlame = BlamerOf(value)],
     err |-> NoErr, panic |-> FALSE]

caseLock(change, value) ==
    IF value.Lexeme = litTrue
    THEN [change |-> [change EXCEPT !.Lock = TRUE, !.LockBlame = BlamerOf(value)],
          err |-> NoErr, panic |-> FALSE]
    ELSE IF value.Lexeme = litFalse
         THEN [change |-> [change EXCEPT !.Lock = FALSE, !.LockBlame = BlamerOf(value)],
               err |-> NoErr, panic |-> FALSE]
         ELSE [change |-> change, err |-> lockErr(value), panic |-> FALSE]

caseDbnameInNoBlame(change, value) ==
    [change |-> [change EXCEPT !.DbnameIn = value.Lexeme],
     err |-> NoErr, panic |-> FALSE]

caseDbnameIn(change, value) ==
    [change |-> [change EXCEPT !.DbnameIn = value.Lexeme,
                               !.DbnameInBlame = BlamerOf(value)],
     err |-> NoErr, panic |-> FALSE]

caseDbnameRewritten(change, value) ==
    [change |-> [change EXCEPT !.DbnameRewritten = value.Lexeme,
                               !.DbnameRewrittenBlame = BlamerOf(value)],
     err |-> NoErr, panic |-> FALSE]

visit(change, name, value) ==
    IF name.Lexeme = fieldAddr THEN caseAddr(change, value)
    ELSE IF name.Lexeme = fieldDbnameIn THEN caseDbnameIn(change, value)
    ELSE IF name.Lexeme = fieldDbnameRewritten THEN caseDbnameRewritten(change, value)
    ELSE IF name.Lexeme = fieldLock THEN caseLock(change, value)
    ELSE [change |-> change, err |-> NoErr, panic |-> TRUE]

RECURSIVE initAttrChange(_, _)
\* r is what the loop body made of the entry visited: an error or a panic
\* ends the loop
visited(r, rest) ==
    IF r.panic \/ r.err # NoErr
    THEN r
    ELSE initAttrChange(r.change, rest)

initAttrChange(change, props) ==
    IF props = <<>>
    THEN [change |-> change, err |-> NoErr, panic |-> FALSE]
    ELSE visited(visit(change, Head(props).name, Head(props).value), Tail(props))

(***************************************************************************)
(* sem.go: the analyzer.  Each routine yields what it returns: the         *)
(* directive d, the error err, and panic when it does not return.  A       *)
(* request reaches it with the entries of its property map in the order    *)
(* range is going to visit them.                                           *)
(***************************************************************************)
Return(d, err) == [d |-> d, err |-> err, panic |-> FALSE]
Panic == [d |-> NilDirective, err |-> NoErr, panic |-> TRUE]

dynPatch == "*dogconf.PatchDirective"
dynCreate == "*dogconf.CreateDirective"
dynGet == "*dogconf.GetDirective"
dynDelete == "*dogconf.DeleteDirective"

\* the end of newPatchDirective and newCreateDirective: r is what
\* initAttrChange made of the properties
assembled(dyn, blamer, target, r) ==
    IF r.panic THEN Panic
    ELSE IF r.err # NoErr
         THEN Return(NilPointer(dyn), r.err)
         ELSE Return(Directive(dyn, blamer, target, r.change), NoErr)

newPatchDirective(ocnSpec, ocnInt, a) ==
    assembled(dynPatch, BlamerOf(a),
              TargetOcn(BlamerOf(ocnSpec),
                        TargetOne(BlamerOf(ocnSpec), ocnSpec.Ocn.Lexeme),
                        ocnInt),
              initAttrChange(ZeroAttrChange, a.Props))

badTarget(dyn, spec, expected) ==
    Return(NilPointer(dyn),
           ErrBadTarget(semErrf(spec,
               <<"Incorrect target type: expected ">> \o expected \o <<", got ", "%T">>,
               <<OperandOfSpec(spec)>>)))

\* p is what ParseUint made of the version lexeme
ocnParsed(ocnSpec, a, p) ==
    IF p.err # NoErr
    THEN Return(NilPointer(dynPatch),
                semErrf(ocnSpec.Ocn, <<"Could not parse OCN, ", "%v">>,
                        <<OperandOfError(p.err)>>))
    ELSE newPatchDirective(ocnSpec, p.n, a)

analyzePatch(req, a) ==
    IF req.Spec.kind = "TargetOcnSpecSyntax"
    THEN ocnParsed(req.Spec, a, ParseUint(req.Spec.Ocn.Lexeme))
    ELSE badTarget(dynPatch, req.Spec, <<"TargetOcnSpecSyntax">>)

newCreateDirective(spec, a) ==
    assembled(dynCreate, BlamerOf(a),
              TargetOne(BlamerOf(spec), spec.What.Lexeme),
              initAttrChange(ZeroAttrChange, a.Props))

analyzeCreate(req, a) ==
    IF req.Spec.kind = "TargetOneSpecSyntax"
    THEN newCreateDirective(req.Spec, a)
    ELSE badTarget(dynCreate, req.Spec, <<"TargetOcnSpecSyntax">>)

\* A GetDirective has no Blamer of its own: it is its Target's.
analyzeGet(req, a) ==
    IF req.Spec.kind = "TargetAllSpecSyntax"
    THEN Return(Directive(dynGet, NilBlamer, TargetAll(BlamerOf(req.Spec)), ZeroAttrChange),
                NoErr)
    ELSE IF req.Spec.kind = "TargetOneSpecSyntax"
         THEN Return(Directive(dynGet, NilBlamer,
                         TargetOne(BlamerOf(req.Spec.What), req.Spec.What.Lexeme),
                         ZeroAttrChange), NoErr)
         ELSE badTarget(dynGet, req.Spec,
                        <<"TargetOneSpecSyntax", " or ", "TargetAllSpecSyntax">>)

\* Analyze of src/dogconf/sem.go: only the patch case is wired in
AnalyzeSem(req) ==
    LET a == req.Action
    IN  IF a.kind = "PatchActionSyntax" THEN analyzePatch(req, a)
        ELSE IF a.kind = "CreateActionSyntax" THEN Return(NilDirective, NoErr)
        ELSE IF a.kind = "GetActionSyntax" THEN Return(NilDirective, NoErr)
        ELSE IF a.kind = "DeleteActionSyntax" THEN Return(NilDirective, NoErr)
        ELSE Panic

\* Analyze of src/unnamed/part_000
AnalyzePart(req) ==
    LET a == req.Action
    IN  IF a.kind = "PatchActionSyntax" THEN analyzePatch(req, a)
        ELSE IF a.kind = "CreateActionSyntax" THEN analyzeCreate(req, a)
        ELSE IF a.kind = "GetActionSyntax" THEN analyzeGet(req, a)
        ELSE IF a.kind = "DeleteActionSyntax" THEN Return(NilDirective, NoErr)
        ELSE Panic

Analyze(req) == IF rev = "sem.go" THEN AnalyzeSem(req) ELSE AnalyzePart(req)

(***************************************************************************)
(* The requests the parser hands over.  Positions: the action is at 1, the *)
(* target specification at 2, its name token at 3, its version token at 4, *)
(* the k-th property's name token at 3 + 2k and its value token at 4 + 2k. *)
(***************************************************************************)
NilToken == [kind |-> "nil", Lexeme |-> <<>>, Pos |-> NoPos]

TargetAllSpecSyntax ==
    [kind |-> "TargetAllSpecSyntax", Lexeme |-> <<>>, Pos |-> 2,
     What |-> NilToken, Ocn |-> NilToken]
TargetOneSpecSyntax(what) ==
    [kind |-> "TargetOneSpecSyntax", Lexeme |-> <<>>, Pos |-> 2,
     What |-> Token(what, 3), Ocn |-> NilToken]
TargetOcnSpecSyntax(what, ocn) ==
    [kind |-> "TargetOcnSpecSyntax", Lexeme |-> <<>>, Pos |-> 2,
     What |-> Token(what, 3), Ocn |-> Token(ocn, 4)]

ActionSyntax(kind, props) == [kind |-> kind, Lexeme |-> <<>>, Pos |-> 1, Props |-> props]

RequestSyntax(action, spec) == [Action |-> action, Spec |-> spec]

ActionKinds ==
    {"PatchActionSyntax", "CreateActionSyntax", "GetActionSyntax", "DeleteActionSyntax"}

nameFdr == <<"f", "d", "r">>
nameSeven == <<"7">>
WhatLexemes == {nameFdr, nameSeven}

ocnSeven == <<"7">>
ocnMax == <<"1", "8", "4", "4", "6", "7", "4", "4", "0", "7", "3", "7", "0", "9", "5", "5", "1", "6", "1", "5">>
ocnOver == <<"1", "8", "4", "4", "6", "7", "4", "4", "0", "7", "3", "7", "0", "9", "5", "5", "1", "6", "1", "6">>
OcnLexemes ==
    {ocnSeven, <<"0", "0", "7">>, <<>>, <<"x", "7">>, <<"-", "1">>, ocnMax, ocnOver}

Specs ==
    {TargetAllSpecSyntax}
        \cup {TargetOneSpecSyntax(w) : w \in WhatLexemes}
        \cup {TargetOcnSpecSyntax(w, o) : w \in WhatLexemes, o \in OcnLexemes}

litYes == <<"'", "y", "e", "s", "'">>
addrGood == <<"'", "1", "0", ".", "0", ".", "0", ".", "5", ":", "5", "4", "3", "2", "'">>
addrHostname == <<"'", "d", "b", ".", "e", "x", "a", "m", "p", "l", "e", ".", "c", "o", "m", ":", "5", "4", "3", "2", "'">>

\* a property as written: the field name and the value literal
Written(field, lexeme) == [field |-> field, lexeme |-> lexeme]

EntryPool ==
    <<Written(fieldAddr, addrGood),
      Written(fieldAddr, addrHostname),
      Written(fieldLock, litTrue),
      Written(fieldLock, litFalse),
      Written(fieldLock, litYes),
      Written(fieldDbnameIn, <<"'", "d", "b", "1", "'">>),
      Written(fieldDbnameRewritten, <<"'", "d", "b", "2", "'">>),
      Written(<<"bogus">>, <<"'", "x", "'">>)>>

\* the map[*Token]*Token of the properties written in this order
PropsOf(written) ==
    {[name |-> Token(written[k].field, 3 + 2 * k),
      value |-> Token(written[k].lexeme, 4 + 2 * k)] : k \in 1..Len(written)}

\* Up to MaxProps properties of the pool.  A map has no order, so a choice
\* of properties is written once, in the order of the pool.
Choices(k) ==
    {w \in [1..k -> 1..Len(EntryPool)] : \A i \in 1..(k - 1) : w[i] <= w[i + 1]}

PropMaps ==
    {PropsOf([i \in 1..Len(w) |-> EntryPool[w[i]]]) :
        w \in UNION {Choices(k) : k \in 0..MaxProps}}

\* host:port literals for the endpoint address resolver
SeqsUpTo(S, n) == UNION {[1..k -> S] : k \in 0..n}

Hosts ==
    {<<>>, <<"1", "0", ".", "0", ".", "0", ".", "5">>, <<"d", "b", ".", "e", "x", "a", "m", "p", "l", "e", ".", "c", "o", "m">>, <<"[", ":", ":", "1", "]">>,
     <<":", ":", "1">>, <<"2", "5", "6", ".", "1", ".", "1", ".", "1">>, <<"[", "f", "e", "8", "0", ":", ":", "1", ".", "2", ".", "3", ".", "4", "]">>, <<"l", "o", "c", "a", "l", "h", "o", "s", "t">>}
PortChars == {"0", "2", "5", "6", "9", "h"}
BoundaryPorts ==
    {<<"6", "5", "5", "3", "5">>, <<"6", "5", "5", "3", "6">>, <<"1", "6", "7", "7", "7", "2", "1", "4">>, <<"1", "6", "7", "7", "7", "2", "1", "5">>,
     <<"1", "6", "7", "7", "7", "2", "1", "6">>, <<"9", "9", "9", "9", "9", "9", "9", "9">>, <<"h", "t", "t", "p">>, <<"b", "i", "g">>}
Ports == SeqsUpTo(PortChars, MaxPortLen) \cup BoundaryPorts
HostPorts ==
    {h \o <<":">> \o p : h \in Hosts, p \in Ports} \cup {<<"1", "0", ".", "0", ".", "0", ".", "5">>, <<>>}
AddrLiterals == {<<"'">> \o hp \o <<"'">> : hp \in HostPorts}

\* every action with every target, without and with a property
TargetRequests ==
    {RequestSyntax(ActionSyntax(k, ps), s) :
        k \in ActionKinds, s \in Specs,
        ps \in {{}, PropsOf(<<Written(fieldLock, litTrue)>>)}}

\* patch and create on a legal target with every property map
PropertyRequests ==
    {RequestSyntax(ActionSyntax("PatchActionSyntax", ps),
                   TargetOcnSpecSyntax(nameFdr, ocnSeven)) : ps \in PropMaps}
        \cup {RequestSyntax(ActionSyntax("CreateActionSyntax", ps),
                            TargetOneSpecSyntax(nameFdr)) : ps \in PropMaps}

\* patch with every address literal
AddressRequests ==
    {RequestSyntax(ActionSyntax("PatchActionSyntax", PropsOf(<<Written(fieldAddr, v)>>)),
                   TargetOcnSpecSyntax(nameFdr, ocnSeven)) : v \in AddrLiterals}

Revs == {"sem.go", "part_000"}

\* the orders range can visit a map in
Orders(props) ==
    {o \in [1..Cardinality(props) -> props] :
        \A i, j \in 1..Cardinality(props) : i # j => o[i] # o[j]}

\* the request with its property map in the order it is visited
Ranged(req, order) == [req EXCEPT !.Action.Props = order]

(***************************************************************************)
(* tools/toydog.go: the goroutines of the toy proxy that hold the routing  *)
(* table.  main makes the table and sets the route of "fdr" before it      *)
(* starts the acceptor loops; a handler is the goroutine of one accepted   *)
(* connection (proxyHandler), which routes the database of its startup     *)
(* packet; a setter is a goroutine that calls SetRoute while the handlers  *)
(* run.                                                                    *)
(***************************************************************************)
Main == "main"
Setters == {"setter1", "setter2"}
Handlers == {"handler1", "handler2"}
Goroutines == {Main} \cup Setters \cup Handlers

dbFdr == "fdr"
sockFdr == "/var/run/postgresql/.s.PGSQL.5432"
DbNames == {dbFdr, "other"}
Addrs == {sockFdr, "10.0.0.5:5432"}

\* the zero value a map read gives for a key that is not in the map
NoRoute == ""
Free == "free"

\* rt := NewRoutingTable(), and main about to call rt.SetRoute
NewRoutingTable ==
    /\ table = [d \in DbNames |-> NoRoute]
    /\ l = Free
    /\ pc = [g \in Goroutines |-> IF g = Main THEN "SetRoute.Lock" ELSE "Idle"]
    /\ dbname = [g \in Goroutines |-> IF g = Main THEN dbFdr ELSE NoRoute]
    /\ routeAddr = [g \in Goroutines |-> IF g = Main THEN sockFdr ELSE NoRoute]
    /\ ret = [g \in Goroutines |-> NoRoute]
    /\ raced = [g \in Goroutines |-> FALSE]
    /\ crashed = FALSE

(***************************************************************************)
(* The state: the revision and build that run, the request, and what each  *)
(* call of Analyze on it came to (order: the order range took).               *)
(***************************************************************************)
\* (The address literals go through the patch of part_000: the builder and
\* the resolver are the same code in both revisions.)
Init ==
    /\ cgo \in BOOLEAN
    /\ outs = <<>>
    /\ \/ rev \in Revs /\ request \in TargetRequests \cup PropertyRequests
       \/ rev = "part_000" /\ request \in AddressRequests
    /\ NewRoutingTable

Outcome(order, r) == [order |-> order, d |-> r.d, err |-> r.err, panic |-> r.panic]

\* Analyze may be called on a request of this kind, a first and a second
\* time; a panic ends the program
CanCall(kind) ==
    /\ Len(outs) < 2
    /\ \A k \in 1..Len(outs) : ~outs[k].panic
    /\ request.Action.kind = kind

\* outs after one more call of Analyze that visits the properties in this order
Called(order) == Append(outs, Outcome(order, Analyze(Ranged(request, order))))

AnalyzePatchCall ==
    /\ CanCall("PatchActionSyntax")
    /\ \E order \in Orders(request.Action.Props) : outs' = Called(order)
    /\ UNCHANGED <<rev, cgo, request>>
    /\ UNCHANGED rtVars

AnalyzeCreateCall ==
    /\ CanCall("CreateActionSyntax")
    /\ \E order \in Orders(request.Action.Props) : outs' = Called(order)
    /\ UNCHANGED <<rev, cgo, request>>
    /\ UNCHANGED rtVars

AnalyzeGetCall ==
    /\ CanCall("GetActionSyntax")
    /\ \E order \in Orders(request.Action.Props) : outs' = Called(order)
    /\ UNCHANGED <<rev, cgo, request>>
    /\ UNCHANGED rtVars

AnalyzeDeleteCall ==
    /\ CanCall("DeleteActionSyntax")
    /\ \E order \in Orders(request.Action.Props) : outs' = Called(order)
    /\ UNCHANGED <<rev, cgo, request>>
    /\ UNCHANGED rtVars

Next ==
    \/ AnalyzePatchCall
    \/ AnalyzeCreateCall
    \/ AnalyzeGetCall
    \/ AnalyzeDeleteCall

Spec == Init /\ [][Next]_vars

(***************************************************************************)
(* The toy proxy.  A map access is not atomic: a write to the map begins   *)
(* and ends, and so does a read.  A read that overlaps a write is a data   *)
(* race: it may return any address or none, or crash the process.          *)
(***************************************************************************)
Running(g, at) == ~crashed /\ pc[g] = at

\* the acceptor loops are started: the goroutines of connections run
Accepting == pc[Main] = "Wait"

\* SetRoute, line 234: r.l.Lock()
SetRouteLock(g) ==
    /\ Running(g, "SetRoute.Lock")
    /\ l = Free
    /\ l' = g
    /\ pc' = [pc EXCEPT ![g] = "SetRoute.Write"]
    /\ UNCHANGED <<table, dbname, routeAddr, ret, raced, crashed>>

\* SetRoute, line 237: r.table[dbname] = addr begins; the reads under way
\* race with it
SetRouteWriteBegin(g) ==
    /\ Running(g, "SetRoute.Write")
    /\ pc' = [pc EXCEPT ![g] = "SetRoute.Writing"]
    /\ raced' = [h \in Goroutines |-> raced[h] \/ pc[h] = "Route.Reading"]
    /\ UNCHANGED <<table, l, dbname, routeAddr, ret, crashed>>

\* SetRoute, line 237: r.table[dbname] = addr ends
SetRouteWriteEnd(g) ==
    /\ Running(g, "SetRoute.Writing")
    /\ table' = [table EXCEPT ![dbname[g]] = routeAddr[g]]
    /\ pc' = [pc EXCEPT ![g] = "SetRoute.Unlock"]
    /\ UNCHANGED <<l, dbname, routeAddr, ret, raced, crashed>>

\* SetRoute, line 235: the deferred r.l.Unlock(), and the return
SetRouteUnlock(g) ==
    /\ Running(g, "SetRoute.Unlock")
    /\ l' = Free
    /\ pc' = [pc EXCEPT ![g] = "Returned"]
    /\ UNCHANGED <<table, dbname, routeAddr, ret, raced, crashed>>

\* main, lines 274-287: the acceptor loops are started and main waits
mainGo ==
    /\ Running(Main, "Returned")
    /\ pc' = [pc EXCEPT ![Main] = "Wait"]
    /\ UNCHANGED <<table, l, dbname, routeAddr, ret, raced, crashed>>

\* a goroutine calls rt.SetRoute(d, a)
SetRouteCall(g) ==
    /\ g \in Setters
    /\ Accepting
    /\ Running(g, "Idle")
    /\ \E d \in DbNames, a \in Addrs :
          /\ dbname' = [dbname EXCEPT ![g] = d]
          /\ routeAddr' = [routeAddr EXCEPT ![g] = a]
    /\ pc' = [pc EXCEPT ![g] = "SetRoute.Lock"]
    /\ UNCHANGED <<table, l, ret, raced, crashed>>

\* proxyHandler, lines 108-111: the database of the startup packet, and the
\* call rt.Route(dbname)
proxyHandler(h) ==
    /\ h \in Handlers
    /\ Accepting
    /\ Running(h, "Idle")
    /\ \E d \in DbNames : dbname' = [dbname EXCEPT ![h] = d]
    /\ pc' = [pc EXCEPT ![h] = "Route.Read"]
    /\ UNCHANGED <<table, l, routeAddr, ret, raced, crashed>>

\* Route, line 241: the read r.table[dbname] begins, with no lock taken; it
\* races with a write under way
RouteReadBegin(h) ==
    /\ Running(h, "Route.Read")
    /\ pc' = [pc EXCEPT ![h] = "Route.Reading"]
    /\ raced' = [raced EXCEPT ![h] = \E g \in Goroutines : pc[g] = "SetRoute.Writing"]
    /\ UNCHANGED <<table, l, dbname, routeAddr, ret, crashed>>

\* Route, line 241: the read ends and Route returns what it read
RouteReadEnd(h) ==
    /\ Running(h, "Route.Reading")
    /\ ~raced[h]
    /\ ret' = [ret EXCEPT ![h] = table[dbname[h]]]
    /\ pc' = [pc EXCEPT ![h] = "Routed"]
    /\ UNCHANGED <<table, l, dbname, routeAddr, raced, crashed>>

\* Route, line 241: a read that raced returns anything
RouteReadRaced(h) ==
    /\ Running(h, "Route.Reading")
    /\ raced[h]
    /\ \E a \in Addrs \cup {NoRoute} : ret' = [ret EXCEPT ![h] = a]
    /\ pc' = [pc EXCEPT ![h] = "Routed"]
    /\ UNCHANGED <<table, l, dbname, routeAddr, raced, crashed>>

\* Route, line 241: or the racing map access crashes the process
RouteReadCrash(h) ==
    /\ Running(h, "Route.Reading")
    /\ raced[h]
    /\ crashed' = TRUE
    /\ UNCHANGED <<table, l, pc, dbname, routeAddr, ret, raced>>

\* proxyHandler, lines 114-117: no route found
proxyHandlerNoRoute(h) ==
    /\ Running(h, "Routed")
    /\ ret[h] = NoRoute
    /\ pc' = [pc EXCEPT ![h] = "Exited"]
    /\ UNCHANGED <<table, l, dbname, routeAddr, ret, raced, crashed>>

\* proxyHandler, lines 121-132: the server is dialled and traffic forwarded
proxyHandlerDial(h) ==
    /\ Running(h, "Routed")
    /\ ret[h] # NoRoute
    /\ pc' = [pc EXCEPT ![h] = "Proxying"]
    /\ UNCHANGED <<table, l, dbname, routeAddr, ret, raced, crashed>>

RtInit ==
    /\ rev = "part_000"
    /\ cgo = FALSE
    /\ request = RequestSyntax(ActionSyntax("GetActionSyntax", {}), TargetAllSpecSyntax)
    /\ outs = <<>>
    /\ NewRoutingTable

RtNext ==
    \/ \E g \in Goroutines : SetRouteLock(g) /\ UNCHANGED semVars
    \/ \E g \in Goroutines : SetRouteWriteBegin(g) /\ UNCHANGED semVars
    \/ \E g \in Goroutines : SetRouteWriteEnd(g) /\ UNCHANGED semVars
    \/ \E g \in Goroutines : SetRouteUnlock(g) /\ UNCHANGED semVars
    \/ mainGo /\ UNCHANGED semVars
    \/ \E g \in Setters : SetRouteCall(g) /\ UNCHANGED semVars
    \/ \E h \in Handlers : proxyHandler(h) /\ UNCHANGED semVars
    \/ \E h \in Handlers : RouteReadBegin(h) /\ UNCHANGED semVars
    \/ \E h \in Handlers : RouteReadEnd(h) /\ UNCHANGED semVars
    \/ \E h \in Handlers : RouteReadRaced(h) /\ UNCHANGED semVars
    \/ \E h \in Handlers : RouteReadCrash(h) /\ UNCHANGED semVars
    \/ \E h \in Handlers : proxyHandlerNoRoute(h) /\ UNCHANGED semVars
    \/ \E h \in Handlers : proxyHandlerDial(h) /\ UNCHANGED semVars

RtSpec == RtInit /\ [][RtNext]_vars

(***************************************************************************)
(* What the properties below are stated with.                              *)
(***************************************************************************)
Runs == 1..Len(outs)

IsPatch == request.Action.kind = "PatchActionSyntax"
IsCreate == request.Action.kind = "CreateActionSyntax"
IsGet == request.Action.kind = "GetActionSyntax"
IsDelete == request.Action.kind = "DeleteActionSyntax"

OnAll == request.Spec.kind = "TargetAllSpecSyntax"
OnOne == request.Spec.kind = "TargetOneSpecSyntax"
OnOcn == request.Spec.kind = "TargetOcnSpecSyntax"

\* the version lexeme of the request parses as an unsigned 64-bit integer
VersionParses == OnOcn /\ ParseUint(request.Spec.Ocn.Lexeme).err = NoErr

\* the call returned a directive and no error
Succeeded(out) == ~out.panic /\ out.err = NoErr /\ ~out.d.nil

\* the text between the quotes of a value literal, split into host and port
Unquoted(lexeme) == Slice(lexeme, 1, Len(lexeme) - 1)
SplitOf(e) == SplitHostPort(Unquoted(e.value.Lexeme))

IsField(e, field) == e.name.Lexeme = field

\* the property is one the builder accepts
ValidEntry(e) ==
    \/ IsField(e, fieldDbnameIn)
    \/ IsField(e, fieldDbnameRewritten)
    \/ IsField(e, fieldLock) /\ e.value.Lexeme \in {litTrue, litFalse}
    \/ /\ IsField(e, fieldAddr)
       /\ Len(e.value.Lexeme) >= 2
       /\ hostPortToAddr(<<"tcp">>, Unquoted(e.value.Lexeme)).err = NoErr

\* the first property in the order visited that the builder does not accept
FirstInvalid(order, k) ==
    /\ k \in 1..Len(order)
    /\ ~ValidEntry(order[k])
    /\ \A m \in 1..(k - 1) : ValidEntry(order[m])

\* the text holds the part as a run of consecutive characters
Contains(text, part) ==
    \E i \in 0..(Len(text) - Len(part)) : SubSeq(text, i + 1, i + Len(part)) = part

(***************************************************************************)
(* C1.  A Patch request on an Ocn target whose version lexeme parses and   *)
(* whose properties are all valid comes back as a Patch directive whose    *)
(* target version is the parsed integer and whose target name (What) is    *)
(* the literal text of the target's name token.                            *)
(***************************************************************************)
C1_PatchTargetVersionAndName ==
    \A k \in Runs :
        (IsPatch /\ VersionParses /\ \A e \in request.Action.Props : ValidEntry(e))
            => /\ Succeeded(outs[k])
               /\ outs[k].d.dyn = dynPatch
               /\ outs[k].d.Target.kind = "TargetOcn"
               /\ outs[k].d.Target.Ocn = ParseUint(request.Spec.Ocn.Lexeme).n
               /\ outs[k].d.Target.What = request.Spec.What.Lexeme

(***************************************************************************)
(* C2.  A request whose target shape is illegal for its action (Patch on   *)
(* All or One, Create on All or Ocn, Get on Ocn) comes back with an        *)
(* ErrBadTarget error and no directive.                                    *)
(***************************************************************************)
IllegalTarget ==
    \/ IsPatch /\ (OnAll \/ OnOne)
    \/ IsCreate /\ (OnAll \/ OnOcn)
    \/ IsGet /\ OnOcn

C2_IllegalTargetIsBadTarget ==
    \A k \in Runs :
        IllegalTarget
            => /\ ~outs[k].panic
               /\ outs[k].err.class = "ErrBadTarget"
               /\ outs[k].d.nil

(***************************************************************************)
(* C3.  A Delete request, whichever of the three target shapes it has,     *)
(* comes back without error as a Delete directive on a target of that      *)
(* shape, with the name and (for Ocn) the parsed version of the request;   *)
(* it never comes back with neither a directive nor an error.              *)
(***************************************************************************)
C3_DeleteYieldsDirective ==
    \A k \in Runs :
        (IsDelete /\ (OnOcn => VersionParses))
            => /\ Succeeded(outs[k])
               /\ outs[k].d.dyn = dynDelete
               /\ OnAll => outs[k].d.Target.kind = "TargetAll"
               /\ OnOne => /\ outs[k].d.Target.kind = "TargetOne"
                           /\ outs[k].d.Target.What = request.Spec.What.Lexeme
               /\ OnOcn => /\ outs[k].d.Target.kind = "TargetOcn"
                           /\ outs[k].d.Target.What = request.Spec.What.Lexeme
                           /\ outs[k].d.Target.Ocn = ParseUint(request.Spec.Ocn.Lexeme).n

(***************************************************************************)
(* C4.  Every error Analyze returns carries a source position.             *)
(***************************************************************************)
C4_EveryErrorHasPosition ==
    \A k \in Runs :
        (~outs[k].panic /\ outs[k].err # NoErr) => outs[k].err.Pos # NoPos

(***************************************************************************)
(* C5.  Two calls of Analyze on the same request come to the same outcome, *)
(* whatever order the property map is visited in: both fail or both        *)
(* succeed, and the directives are equal field for field.                  *)
(***************************************************************************)
C5_SameRequestSameDirective ==
    \A i, j \in Runs :
        (~outs[i].panic /\ ~outs[j].panic)
            => /\ outs[i].d = outs[j].d
               /\ (outs[i].err = NoErr) <=> (outs[j].err = NoErr)

\* the attribute change builder ran: Analyze got as far as initAttrChange
BuilderRan ==
    \/ IsPatch /\ VersionParses
    \/ IsCreate /\ OnOne /\ rev = "part_000"

\* the m-th property visited is reached: the builder accepted all before it
Reached(order, m) == m \in 1..Len(order) /\ \A n \in 1..(m - 1) : ValidEntry(order[n])

\* the m-th property visited is the last one of its field
LastOfField(order, m) ==
    \A n \in (m + 1)..Len(order) : order[n].name.Lexeme # order[m].name.Lexeme

(***************************************************************************)
(* C6.  In the attribute change builder a lock literal 'true' gives        *)
(* Lock = true and 'false' gives Lock = false, the lock field marked       *)
(* present with the value token; any other literal gives an error whose    *)
(* message holds the literal with its quotes, and the caller's directive   *)
(* gets no AttrChange.                                                     *)
(***************************************************************************)
C6_LockLiteral ==
    \A k \in Runs :
        BuilderRan =>
            /\ Succeeded(outs[k]) =>
                  \A m \in 1..Len(outs[k].order) :
                      (IsField(outs[k].order[m], fieldLock) /\ LastOfField(outs[k].order, m))
                          => /\ outs[k].d.Change.LockBlame = BlamerOf(outs[k].order[m].value)
                             /\ outs[k].order[m].value.Lexeme \in {litTrue, litFalse}
                             /\ outs[k].d.Change.Lock = (outs[k].order[m].value.Lexeme = litTrue)
            /\ \A m \in 1..Len(outs[k].order) :
                  (FirstInvalid(outs[k].order, m) /\ IsField(outs[k].order[m], fieldLock))
                      => /\ ~outs[k].panic
                         /\ outs[k].err # NoErr
                         /\ Contains(outs[k].err.msg, outs[k].order[m].value.Lexeme)
                         /\ outs[k].d.nil

C6_Witness ==
    \E k \in Runs :
        /\ BuilderRan
        /\ \E m \in 1..Len(outs[k].order) :
              /\ m > 1
              /\ FirstInvalid(outs[k].order, m)
              /\ IsField(outs[k].order[m], fieldLock)
              /\ outs[k].order[m].value.Lexeme = litYes
              /\ IsField(outs[k].order[1], fieldLock)
        /\ Contains(outs[k].err.msg, litYes)
        /\ outs[k].d.nil

(***************************************************************************)
(* C7.  As claimed: an addr value host:port whose host part does not parse *)
(* as a literal IPv4 or IPv6 address makes the builder return an error and *)
(* no resolved endpoint.                                                   *)
(***************************************************************************)
\* an addr property whose literal splits into host and port
AddrSplits(e) ==
    /\ IsField(e, fieldAddr)
    /\ Len(e.value.Lexeme) >= 2
    /\ SplitOf(e).err = NoErr

C7_NonIPHostRejected ==
    \A k \in Runs :
        BuilderRan =>
            \A m \in 1..Len(outs[k].order) :
                (/\ Reached(outs[k].order, m)
                 /\ AddrSplits(outs[k].order[m])
                 /\ ParseIP(SplitOf(outs[k].order[m]).host) = NilIP)
                    => /\ ~outs[k].panic
                       /\ outs[k].err # NoErr
                       /\ outs[k].d.nil

(***************************************************************************)
(* C7, the part the code keeps.  An addr value host:port whose host part   *)
(* is not empty and does not parse as a literal IPv4 or IPv6 address makes *)
(* the builder return the invalid-IP error and no resolved endpoint.  (An  *)
(* empty host is let through: the endpoint then has no IP.)                *)
(***************************************************************************)
C7_NonEmptyNonIPHostRejected ==
    \A k \in Runs :
        BuilderRan =>
            \A m \in 1..Len(outs[k].order) :
                (/\ Reached(outs[k].order, m)
                 /\ AddrSplits(outs[k].order[m])
                 /\ SplitOf(outs[k].order[m]).host # <<>>
                 /\ ParseIP(SplitOf(outs[k].order[m]).host) = NilIP)
                    => /\ ~outs[k].panic
                       /\ outs[k].err = errorsNew("Invalid IP passed")
                       /\ outs[k].d.nil

C7_Witness ==
    \E k \in Runs :
        /\ BuilderRan
        /\ Len(outs[k].order) = 1
        /\ AddrSplits(outs[k].order[1])
        /\ SplitOf(outs[k].order[1]).host = <<"l", "o", "c", "a", "l", "h", "o", "s", "t">>
        /\ AllDigits(SplitOf(outs[k].order[1]).port)
        /\ outs[k].err = errorsNew("Invalid IP passed")
        /\ outs[k].d.nil

(***************************************************************************)
(* C8.  After a successful run of the builder each of the four fields of   *)
(* the AttrChange is marked present if and only if its name is in the      *)
(* property map; a marker that is present is the value token of a property *)
(* of that name, and a field that is not named keeps its zero value.       *)
(***************************************************************************)
Named(field) == {e \in request.Action.Props : IsField(e, field)}

Marked(blame, field) ==
    /\ (blame # NilBlamer) <=> (Named(field) # {})
    /\ blame # NilBlamer => \E e \in Named(field) : blame = BlamerOf(e.value)

C8_PresentIffNamed ==
    \A k \in Runs :
        (BuilderRan /\ Succeeded(outs[k])) =>
            /\ Marked(outs[k].d.Change.AddrBlame, fieldAddr)
            /\ Marked(outs[k].d.Change.DbnameInBlame, fieldDbnameIn)
            /\ Marked(outs[k].d.Change.DbnameRewrittenBlame, fieldDbnameRewritten)
            /\ Marked(outs[k].d.Change.LockBlame, fieldLock)
            /\ Named(fieldAddr) = {} => outs[k].d.Change.Addr = NilAddr
            /\ Named(fieldDbnameIn) = {} => outs[k].d.Change.DbnameIn = <<>>
            /\ Named(fieldDbnameRewritten) = {} => outs[k].d.Change.DbnameRewritten = <<>>
            /\ Named(fieldLock) = {} => outs[k].d.Change.Lock = FALSE

C8_Witness ==
    \E k \in Runs :
        /\ BuilderRan
        /\ Succeeded(outs[k])
        /\ Named(fieldDbnameIn) # {}
        /\ Named(fieldAddr) # {}
        /\ Named(fieldLock) = {}
        /\ outs[k].d.Change.DbnameInBlame # NilBlamer
        /\ outs[k].d.Change.AddrBlame # NilBlamer
        /\ outs[k].d.Change.LockBlame = NilBlamer

(***************************************************************************)
(* C9.  Every bad-target error is anchored to the target specification of  *)
(* the request, and its message names exactly the target shapes that are   *)
(* legal for the action (Ocn for Patch, One for Create, All or One for     *)
(* Get) and the shape that was supplied.                                   *)
(***************************************************************************)
ShapeNames == {"TargetAllSpecSyntax", "TargetOneSpecSyntax", "TargetOcnSpecSyntax"}

LegalShapes ==
    IF IsPatch THEN {"TargetOcnSpecSyntax"}
    ELSE IF IsCreate THEN {"TargetOneSpecSyntax"}
    ELSE IF IsGet THEN {"TargetAllSpecSyntax", "TargetOneSpecSyntax"}
    ELSE ShapeNames

\* the shapes a message names before and after its ", got "
GotAt(msg) == CHOOSE i \in 1..Len(msg) : msg[i] = ", got "
ExpectedNamed(msg) == {msg[i] : i \in 1..(GotAt(msg) - 1)} \cap ShapeNames
SuppliedNamed(msg) == {msg[i] : i \in (GotAt(msg) + 1)..Len(msg)} \cap ShapeNames

C9_BadTargetNamesLegalShapes ==
    \A k \in Runs :
        outs[k].err.class = "ErrBadTarget"
            => /\ outs[k].err.Pos = request.Spec.Pos
               /\ \E i \in 1..Len(outs[k].err.msg) : outs[k].err.msg[i] = ", got "
               /\ ExpectedNamed(outs[k].err.msg) = LegalShapes
               /\ SuppliedNamed(outs[k].err.msg) = {request.Spec.kind}

(***************************************************************************)
(* C10.  As claimed: every endpoint the resolver returns has a port in     *)
(* 0..65535; an all-digit port above 65535 makes the resolver fail with    *)
(* the invalid-port error; dtoi fails once the value reaches 0xFFFFFF.     *)
(***************************************************************************)
\* the value of a digit string, or cap when it is cap or more
RECURSIVE Saturated(_, _, _, _)
Saturated(s, i, n, cap) ==
    IF i >= Len(s) THEN n
    ELSE IF n * 10 + DigitVal(s[i + 1]) >= cap THEN cap
         ELSE Saturated(s, i + 1, n * 10 + DigitVal(s[i + 1]), cap)

\* the m-th property visited is an addr the resolver gets as far as the port of
PortReached(order, m) ==
    /\ Reached(order, m)
    /\ AddrSplits(order[m])
    /\ hostOf(SplitOf(order[m]).host).err = NoErr

DigitPort(e) == SplitOf(e).port # <<>> /\ AllDigits(SplitOf(e).port)

IsInvalidPort(e, port) == e = AddrError("invalid port", port)

EndpointPortInRange(out) ==
    (Succeeded(out) /\ out.d.Change.AddrBlame # NilBlamer)
        => out.d.Change.Addr.Port \in 0..65535

C10_PortRangeAllDigits ==
    \A k \in Runs :
        BuilderRan =>
            /\ EndpointPortInRange(outs[k])
            /\ \A m \in 1..Len(outs[k].order) :
                  (/\ PortReached(outs[k].order, m)
                   /\ DigitPort(outs[k].order[m])
                   /\ Saturated(SplitOf(outs[k].order[m]).port, 0, 0, 65536) > 65535)
                      => /\ IsInvalidPort(outs[k].err, SplitOf(outs[k].order[m]).port)
                         /\ outs[k].d.nil
            /\ \A m \in 1..Len(outs[k].order) :
                  (/\ PortReached(outs[k].order, m)
                   /\ DigitPort(outs[k].order[m])
                   /\ Saturated(SplitOf(outs[k].order[m]).port, 0, 0, big) >= big)
                      => ~dtoi(SplitOf(outs[k].order[m]).port, 0).ok

(***************************************************************************)
(* C10, the part the code keeps.  Every endpoint the resolver returns has  *)
(* a port in 0..65535; an all-digit port above 65535 and below 0xFFFFFF    *)
(* makes the resolver fail with the invalid-port error; dtoi fails once    *)
(* the value reaches 0xFFFFFF, and the port is then the services lookup's  *)
(* to decide: its error is the resolver's error.                           *)
(***************************************************************************)
C10_PortRange ==
    \A k \in Runs :
        BuilderRan =>
            /\ EndpointPortInRange(outs[k])
            /\ \A m \in 1..Len(outs[k].order) :
                  (/\ PortReached(outs[k].order, m)
                   /\ DigitPort(outs[k].order[m])
                   /\ Saturated(SplitOf(outs[k].order[m]).port, 0, 0, 65536) > 65535
                   /\ Saturated(SplitOf(outs[k].order[m]).port, 0, 0, big) < big)
                      => /\ IsInvalidPort(outs[k].err, SplitOf(outs[k].order[m]).port)
                         /\ outs[k].d.nil
            /\ \A m \in 1..Len(outs[k].order) :
                  (/\ PortReached(outs[k].order, m)
                   /\ DigitPort(outs[k].order[m])
                   /\ Saturated(SplitOf(outs[k].order[m]).port, 0, 0, big) >= big)
                      => /\ ~dtoi(SplitOf(outs[k].order[m]).port, 0).ok
                         /\ LookupPort(<<"tcp">>, SplitOf(outs[k].order[m]).port).err # NoErr
                               => /\ outs[k].err
                                       = LookupPort(<<"tcp">>, SplitOf(outs[k].order[m]).port).err
                                  /\ outs[k].d.nil

C10_Witness ==
    \E k \in Runs :
        /\ BuilderRan
        /\ Len(outs[k].order) = 1
        /\ PortReached(outs[k].order, 1)
        /\ DigitPort(outs[k].order[1])
        /\ Saturated(SplitOf(outs[k].order[1]).port, 0, 0, big) = big - 1
        /\ IsInvalidPort(outs[k].err, SplitOf(outs[k].order[1]).port)
        /\ outs[k].d.nil

(***************************************************************************)
(* C11.  In the RoutingTable, under every interleaving of goroutines that  *)
(* call SetRoute and Route, no access of Route to the table map overlaps a *)
(* write of SetRoute to it: every access to the map is made holding the    *)
(* table's lock, which excludes the others.                                *)
(***************************************************************************)
InRead(h) == pc[h] = "Route.Reading"
InWrite(g) == pc[g] = "SetRoute.Writing"

C11_MapAccessExcludedByLock ==
    /\ \A h, g \in Goroutines : ~(InRead(h) /\ InWrite(g))
    /\ \A g \in Goroutines : (InRead(g) \/ InWrite(g)) => l = g

\* a handler's Route reads the map entry a setter's SetRoute is writing
C11_Witness ==
    \E h \in Handlers, g \in Setters :
        /\ InRead(h)
        /\ InWrite(g)
        /\ l = g
        /\ dbname[h] = dbname[g]
        /\ raced[h]

(***************************************************************************)
(* C11, the part the code keeps.  The writes of SetRoute exclude each      *)
(* other: a goroutine writing to the map holds the lock, and no two write  *)
(* at once.                                                                *)
(***************************************************************************)
C11_WritesExcludedByLock ==
    /\ \A g \in Goroutines : InWrite(g) => l = g
    /\ \A g, k \in Goroutines : (InWrite(g) /\ InWrite(k)) => g = k

=============================================================================
